---------------------------- MODULE Spec2Model ----------------------------
(***************************************************************************)
(* A model of src/utils/bilibili_enhanced_tool.py: the BV/AV identifier     *)
(* codec (bvid2aid, aid2bvid), the WBI request signer (encWbi), the         *)
(* constructor of BilibiliEnhancedTool and its facade operations.           *)
(*                                                                         *)
(* Python values are modelled as tagged records (PyNone, PyInt, PyStr,      *)
(* PyList, PyDict).  A Python str is a sequence of one-character strings.   *)
(* A Python int is unbounded; it is modelled as its sequence of binary      *)
(* digits, least significant first, without leading zeros (0 is <<>>), so   *)
(* that 51-bit identifiers are computed exactly.                            *)
(***************************************************************************)
EXTENDS Integers, Sequences, FiniteSets, TLC

VARIABLES
    tool,   \* the BilibiliEnhancedTool instance (cookies, has_credentials), or NoTool
    pc,     \* "idle": no call running; "done": the last call has ended
    call,   \* the last call: [op |-> name, args |-> <<...>>]
    ret,    \* how the last call ended: Return(value) or Raise(exception)
    log,    \* the HTTP requests the last call issued, in order, with their outcomes
    prev    \* what the caller remembers of the call before the last one

vars == <<tool, pc, call, ret, log, prev>>

-----------------------------------------------------------------------------
(* Bounds of the model *)

\* how many of FreeBitList's positions the numeric ids of the inputs may set
NFree == 5
\* how many distinct non-empty credential token values the inputs draw from
NTokens == 3
\* the longest page list the page-list endpoint returns
MaxPages == 2
\* the longest subtitle track list the player endpoints return
MaxTracks == 2
\* the largest page number a caller passes (the smallest is -MaxPage)
MaxPage == 2
\* the longest parameter set handed to encWbi
MaxParams == 2

-----------------------------------------------------------------------------
(* Python values *)

PyNone == [t |-> "None"]
PyInt(bits) == [t |-> "int", v |-> bits]
PyStr(chars) == [t |-> "str", v |-> chars]
PyList(items) == [t |-> "list", v |-> items]
PyDict(fields) == [t |-> "dict", v |-> fields]

Return(val) == [kind |-> "return", val |-> val]
Raise(exc) == [kind |-> "raise", exc |-> exc]
RaiseWith(exc, info) == [kind |-> "raise", exc |-> exc, info |-> info]

NoCall == [op |-> "none", args |-> <<>>]
NoRet == [kind |-> "none"]
NoPrev == [op |-> "none"]

Reverse(s) == [i \in 1..Len(s) |-> s[Len(s) + 1 - i]]

\* the elements of a sequence
Range(s) == {s[i] : i \in 1..Len(s)}

\* s[a:b] of Python, 0-based a, exclusive b, both within 0..len(s)
Slice(s, a, b) == IF a >= b THEN <<>> ELSE SubSeq(s, a + 1, b)

StartsWith(s, p) == Len(s) >= Len(p) /\ SubSeq(s, 1, Len(p)) = p

-----------------------------------------------------------------------------
(* Unbounded naturals as digit sequences, least significant digit first *)

RECURSIVE Normalize(_)
Normalize(ds) ==
    IF ds = <<>> THEN <<>>
    ELSE IF ds[Len(ds)] = 0 THEN Normalize(SubSeq(ds, 1, Len(ds) - 1))
    ELSE ds

\* long division of the base-b number ds by the small number d, from the most
\* significant digit down: [q |-> quotient digits, r |-> remainder]
\* (the tests r < 0 and Len(q) < 0 are never true: they make TLC evaluate the
\* accumulators at every step instead of stacking them up)
RECURSIVE DivLoop(_, _, _, _, _, _)
DivLoop(ds, b, d, i, r, q) ==
    IF i = 0 \/ r < 0 \/ Len(q) < 0 THEN [q |-> Normalize(q), r |-> r]
    ELSE LET cur == r * b + ds[i]
         IN  DivLoop(ds, b, d, i - 1, cur % d, <<cur \div d>> \o q)

DivMod(ds, b, d) == DivLoop(ds, b, d, Len(ds), 0, <<>>)

\* ds * m + a in base b, for small m and a
RECURSIVE MulAddLoop(_, _, _, _, _, _)
MulAddLoop(ds, b, m, i, carry, out) ==
    IF Len(out) < 0 THEN out
    ELSE IF i > Len(ds)
    THEN IF carry = 0 THEN Normalize(out)
         ELSE MulAddLoop(ds, b, m, i, carry \div b, Append(out, carry % b))
    ELSE LET cur == ds[i] * m + carry
         IN  MulAddLoop(ds, b, m, i + 1, cur \div b, Append(out, cur % b))

MulAdd(ds, b, m, a) == MulAddLoop(ds, b, m, 1, a, <<>>)

\* the number written with the decimal digits ds (most significant first), in binary
RECURSIVE FromDecimalLoop(_, _, _)
FromDecimalLoop(ds, i, acc) ==
    IF i > Len(ds) THEN acc
    ELSE FromDecimalLoop(ds, i + 1, MulAdd(acc, 2, 10, ds[i]))

FromDecimal(ds) == FromDecimalLoop(ds, 1, <<>>)

\* the decimal digits (most significant first) of a binary number: str(int)
RECURSIVE ToDecimalLoop(_, _)
ToDecimalLoop(bits, out) ==
    IF bits = <<>> THEN out
    ELSE LET dm == DivMod(bits, 2, 10)
         IN  ToDecimalLoop(dm.q, <<dm.r>> \o out)

ToDecimal(bits) == IF bits = <<>> THEN <<0>> ELSE ToDecimalLoop(bits, <<>>)

Bit(bits, i) == IF i <= Len(bits) THEN bits[i] ELSE 0

MaxOf(a, b) == IF a >= b THEN a ELSE b

\* a & b, a | b, a ^ b of Python on non-negative ints
BitAnd(a, b) ==
    Normalize([i \in 1..MaxOf(Len(a), Len(b)) |-> IF Bit(a, i) = 1 /\ Bit(b, i) = 1 THEN 1 ELSE 0])
BitOr(a, b) ==
    Normalize([i \in 1..MaxOf(Len(a), Len(b)) |-> IF Bit(a, i) = 1 \/ Bit(b, i) = 1 THEN 1 ELSE 0])
BitXor(a, b) ==
    Normalize([i \in 1..MaxOf(Len(a), Len(b)) |-> IF Bit(a, i) # Bit(b, i) THEN 1 ELSE 0])

\* 1 << n
ShiftOne(n) == [i \in 1..(n + 1) |-> IF i = n + 1 THEN 1 ELSE 0]

\* a < 2^n
FitsBits(a, n) == Len(a) <= n

-----------------------------------------------------------------------------
(* The identifier codec: bvid2aid and aid2bvid *)

BASE == 58
BV_LEN == 12
AID_BITS == 51

XOR_CODE == FromDecimal(<<2, 3, 4, 4, 2, 8, 2, 7, 7, 9, 1, 5, 7, 9>>)
MASK_CODE == FromDecimal(<<2, 2, 5, 1, 7, 9, 9, 8, 1, 3, 6, 8, 5, 2, 4, 7>>)
MAX_AID == ShiftOne(AID_BITS)

data ==
    << "F", "c", "w", "A", "P", "N", "K", "T", "M", "u", "g", "3", "G", "V", "5", "L",
       "j", "7", "E", "J", "n", "H", "p", "W", "s", "x", "4", "t", "b", "8", "h", "a",
       "Y", "e", "v", "i", "q", "B", "z", "6", "r", "k", "C", "y", "1", "2", "m", "U",
       "S", "D", "Q", "X", "9", "R", "d", "o", "Z", "f" >>

\* data.index(c): the 0-based position of c in data (c is in data)
DataIndex(c) == (CHOOSE i \in 1..Len(data) : data[i] = c) - 1

\* l[i], l[j] = l[j], l[i] with 0-based i and j
Swap(l, i, j) == [l EXCEPT ![i + 1] = l[j + 1], ![j + 1] = l[i + 1]]

\* for i in bvid: idx = data.index(i.encode()); tmp = tmp * BASE + idx
RECURSIVE Bvid2aidLoop(_, _, _)
Bvid2aidLoop(body, i, tmp) ==
    IF i > Len(body) THEN Return(tmp)
    ELSE IF body[i] \notin Range(data) THEN Raise("ValueError")
    ELSE Bvid2aidLoop(body, i + 1, MulAdd(tmp, 2, BASE, DataIndex(body[i])))

\* bvid2aid without the & MASK_CODE
Bvid2aidNoMask(bvid) ==
    IF Len(bvid) < 10 THEN Raise("IndexError")
    ELSE LET swapped == Swap(Swap(bvid, 3, 9), 4, 7)
             body == Slice(swapped, 3, Len(swapped))
             folded == Bvid2aidLoop(body, 1, <<>>)
         IN  IF folded.kind = "raise" THEN folded
             ELSE Return(BitXor(folded.val, XOR_CODE))

\* bvid2aid on the characters of bvid: Return(bits) or Raise(exception)
Bvid2aid(bvid) ==
    IF Len(bvid) < 10 THEN Raise("IndexError")
    ELSE LET swapped == Swap(Swap(bvid, 3, 9), 4, 7)
             body == Slice(swapped, 3, Len(swapped))
             folded == Bvid2aidLoop(body, 1, <<>>)
         IN  IF folded.kind = "raise" THEN folded
             ELSE Return(BitXor(BitAnd(folded.val, MASK_CODE), XOR_CODE))

\* while int(tmp) != 0: bytes_list[bv_idx] = data[int(tmp % BASE)]; tmp //= BASE; bv_idx -= 1
\* (a negative bv_idx counts from the end of the list, below -len it is an IndexError)
RECURSIVE Aid2bvidLoop(_, _, _)
Aid2bvidLoop(tmp, bytes_list, bv_idx) ==
    IF tmp = <<>> THEN Return(bytes_list)
    ELSE IF bv_idx < -Len(bytes_list) \/ Len(bytes_list) # BV_LEN THEN Raise("IndexError")
    ELSE LET dm == DivMod(tmp, 2, BASE)
             at == IF bv_idx >= 0 THEN bv_idx + 1 ELSE Len(bytes_list) + bv_idx + 1
         IN  Aid2bvidLoop(dm.q, [bytes_list EXCEPT ![at] = data[dm.r + 1]], bv_idx - 1)

\* aid2bvid that swaps positions 4 and 6 instead of 4 and 7
Aid2bvidWrongSwap(aid) ==
    LET bytes_list == <<"B", "V", "1", "0", "0", "0", "0", "0", "0", "0", "0", "0">>
        tmp == BitXor(BitOr(MAX_AID, aid), XOR_CODE)
        filled == Aid2bvidLoop(tmp, bytes_list, BV_LEN - 1)
    IN  IF filled.kind = "raise" THEN filled
        ELSE Return(Swap(Swap(filled.val, 3, 9), 4, 6))

\* aid2bvid on the bits of a non-negative aid: Return(characters) or Raise(exception)
Aid2bvid(aid) ==
    LET bytes_list == <<"B", "V", "1", "0", "0", "0", "0", "0", "0", "0", "0", "0">>
        tmp == BitXor(BitOr(MAX_AID, aid), XOR_CODE)
        filled == Aid2bvidLoop(tmp, bytes_list, BV_LEN - 1)
    IN  IF filled.kind = "raise" THEN filled
        ELSE Return(Swap(Swap(filled.val, 3, 9), 4, 7))


-----------------------------------------------------------------------------
(* Inputs of the codec *)

\* bit positions (0-based) the numeric ids of the inputs may set; 51 lies outside
\* the range 0 <= n < 2^51 of a numeric id
FreeBitList == <<0, 50, 51, 25, 44, 17, 5, 33, 49, 12>>

FreeBits == {FreeBitList[i] : i \in 1..NFree}

\* the number whose set bits are the positions in S
FromBitSet(S) ==
    Normalize([i \in 1..(AID_BITS + 1) |-> IF (i - 1) \in S THEN 1 ELSE 0])

\* numeric ids: every subset of the free positions set, and its 51-bit complement
AidInputs ==
    {FromBitSet(S) : S \in SUBSET FreeBits}
        \cup {FromBitSet((0..(AID_BITS - 1)) \ S) : S \in SUBSET FreeBits}

\* the demo video of main(), "BV1GJ411x7h7"
TestVideoId == <<"B", "V", "1", "G", "J", "4", "1", "1", "x", "7", "h", "7">>

\* coded ids: the demo id with the characters at positions 9 (the leading digit
\* of the body), 6 and 11 replaced, cut to 9..12 characters; "l", "0" and "O"
\* are not in the alphabet
BvidInputs ==
    {SubSeq([TestVideoId EXCEPT ![10] = c9, ![7] = c6, ![12] = c11], 1, n) :
        c9 \in {"7", "F", "f", "n", "v", "0"},
        c6 \in {"1", "Z", "O"},
        c11 \in {"7", "f", "l"},
        n \in 9..BV_LEN}
        \cup {<<"B", "V", "1", "F", "F", "F", "F", "F", "F", "F", "F", "F">>}

-----------------------------------------------------------------------------
(* The codec as called by a user of the tool: a call of either conversion on a
   fresh input, or on the value the previous call returned *)

TheTool ==
    [cookies |-> [SESSDATA |-> PyStr(<<"s">>), bili_jct |-> PyStr(<<"j">>),
                  buvid3 |-> PyStr(<<"b">>)],
     has_credentials |-> TRUE]

InitCodec ==
    /\ tool = TheTool
    /\ pc = "idle"
    /\ call = NoCall
    /\ ret = NoRet
    /\ log = <<>>
    /\ prev = NoPrev

WrapInt(r) == IF r.kind = "return" THEN Return(PyInt(r.val)) ELSE r
WrapStr(r) == IF r.kind = "return" THEN Return(PyStr(r.val)) ELSE r

\* the values a caller may pass on: fresh ones, or what the last call returned
AidArgs ==
    IF prev.op = "none" THEN {PyInt(n) : n \in AidInputs}
    ELSE IF prev.ret.kind = "return" /\ prev.ret.val.t = "int" THEN {prev.ret.val}
    ELSE {}

BvidArgs ==
    IF prev.op = "none" THEN {PyStr(s) : s \in BvidInputs}
    ELSE IF prev.ret.kind = "return" /\ prev.ret.val.t = "str" THEN {prev.ret.val}
    ELSE {}

CallAid2bvid ==
    /\ pc = "idle"
    /\ \E aid \in AidArgs :
        /\ call' = [op |-> "aid2bvid", args |-> <<aid>>]
        /\ ret' = WrapStr(Aid2bvid(aid.v))
    /\ pc' = "done"
    /\ UNCHANGED <<tool, log, prev>>

CallBvid2aid ==
    /\ pc = "idle"
    /\ \E bvid \in BvidArgs :
        /\ call' = [op |-> "bvid2aid", args |-> <<bvid>>]
        /\ ret' = WrapInt(Bvid2aid(bvid.v))
    /\ pc' = "done"
    /\ UNCHANGED <<tool, log, prev>>

\* the caller takes the result and remembers the call
CodecReturn ==
    /\ pc = "done"
    /\ pc' = "idle"
    /\ prev' = [op |-> call.op, args |-> call.args, ret |-> ret]
    /\ UNCHANGED <<tool, call, ret, log>>

NextCodec == CallAid2bvid \/ CallBvid2aid \/ CodecReturn

SpecCodec == InitCodec /\ [][NextCodec]_vars


-----------------------------------------------------------------------------
(* Properties of the codec, under SpecCodec *)

\* the last call was op on the value the call before it returned
Chained(first, second) ==
    /\ pc = "done"
    /\ prev.op = first
    /\ call.op = second
    /\ prev.ret.kind = "return"
    /\ call.args = <<prev.ret.val>>

\* 12 characters, the prefix "BV1", the other 9 characters from the alphabet
ValidlyFormed(s) ==
    /\ Len(s) = BV_LEN
    /\ SubSeq(s, 1, 3) = <<"B", "V", "1">>
    /\ \A i \in 4..BV_LEN : s[i] \in Range(data)

\* the number that the body of the validly-formed s denotes: its characters with
\* the two swaps undone, read as base-58 digits, most significant first
RECURSIVE DigitsValue(_, _, _)
DigitsValue(chars, i, acc) ==
    IF i > Len(chars) \/ Len(acc) < 0 THEN acc
    ELSE DigitsValue(chars, i + 1, MulAdd(acc, 2, BASE, DataIndex(chars[i])))

BodyValue(s) ==
    DigitsValue(<<s[10], s[8], s[6], s[7], s[5], s[9], s[4], s[11], s[12]>>, 1, <<>>)

\* 2^51 <= BodyValue(s) < 2^52
InEncodedRange(s) == Len(BodyValue(s)) = AID_BITS + 1

\* C1: for every numeric id n with 0 <= n < 2^51, bvid2aid(aid2bvid(n)) = n
C1_RoundTripNumeric ==
    (Chained("aid2bvid", "bvid2aid") /\ FitsBits(prev.args[1].v, AID_BITS))
        => ret = Return(prev.args[1])

\* a numeric id with bit 50 set has gone through aid2bvid and back
C1_Witness ==
    /\ Chained("aid2bvid", "bvid2aid")
    /\ Len(prev.args[1].v) = AID_BITS
    /\ ret = Return(prev.args[1])

\* C2 as stated: for every validly-formed coded id s, aid2bvid(bvid2aid(s)) = s
C2_RoundTripCodedAsStated ==
    (Chained("bvid2aid", "aid2bvid") /\ ValidlyFormed(prev.args[1].v))
        => ret = Return(prev.args[1])

\* C2 as amended: for every validly-formed coded id s whose body denotes a
\* number in [2^51, 2^52), aid2bvid(bvid2aid(s)) = s
C2_RoundTripCoded ==
    (/\ Chained("bvid2aid", "aid2bvid")
     /\ ValidlyFormed(prev.args[1].v)
     /\ InEncodedRange(prev.args[1].v))
        => ret = Return(prev.args[1])

\* "BV1GJ411x7hf", which no call of aid2bvid produced, has gone through
\* bvid2aid and back
C2_Witness ==
    /\ Chained("bvid2aid", "aid2bvid")
    /\ prev.args[1] = PyStr([TestVideoId EXCEPT ![12] = "f"])
    /\ ret = Return(prev.args[1])

\* C6: bvid2aid fails, and returns no numeric id, for every input shorter than
\* 12 characters or with a character outside the alphabet in its body
C6_RejectsMalformed ==
    (/\ pc = "done"
     /\ call.op = "bvid2aid"
     /\ \/ Len(call.args[1].v) < BV_LEN
        \/ \E i \in 4..Len(call.args[1].v) : call.args[1].v[i] \notin Range(data))
        => ret.kind = "raise"


-----------------------------------------------------------------------------
(* The constructor of BilibiliEnhancedTool *)

NoTool == [has_credentials |-> FALSE]

\* not v, for the values a credential argument takes: None and "" are false
IsFalsy(v) == v.t = "None" \/ (v.t = "str" /\ v.v = <<>>)

\* __init__ that reports only the first missing credential
InitFirstMissing(sessdata, bili_jct, buvid3) ==
    IF IsFalsy(sessdata) \/ IsFalsy(bili_jct) \/ IsFalsy(buvid3)
    THEN [ret |-> RaiseWith("ValueError",
                     IF IsFalsy(sessdata) THEN <<"sessdata">>
                     ELSE IF IsFalsy(bili_jct) THEN <<"bili_jct">>
                     ELSE <<"buvid3">>),
          tool |-> NoTool]
    ELSE [ret |-> Return(PyNone),
          tool |-> [cookies |-> [SESSDATA |-> sessdata, bili_jct |-> bili_jct,
                                 buvid3 |-> buvid3],
                    has_credentials |-> TRUE]]

\* __init__: [ret |-> how it ends, tool |-> the instance it leaves]; the
\* ValueError carries the names joined into its message, in order
InitTool(sessdata, bili_jct, buvid3) ==
    IF IsFalsy(sessdata) \/ IsFalsy(bili_jct) \/ IsFalsy(buvid3)
    THEN LET m1 == IF IsFalsy(sessdata) THEN <<"sessdata">> ELSE <<>>
             m2 == IF IsFalsy(bili_jct) THEN Append(m1, "bili_jct") ELSE m1
             missing_credentials == IF IsFalsy(buvid3) THEN Append(m2, "buvid3") ELSE m2
         IN  [ret |-> RaiseWith("ValueError", missing_credentials), tool |-> NoTool]
    ELSE [ret |-> Return(PyNone),
          tool |-> [cookies |-> [SESSDATA |-> sessdata, bili_jct |-> bili_jct,
                                 buvid3 |-> buvid3],
                    has_credentials |-> TRUE]]

\* get_credentials_status
GetCredentialsStatus(self) ==
    [has_credentials |-> self.has_credentials,
     cookies |-> self.cookies,
     can_access_subtitles |-> self.has_credentials]

\* what a caller passes for a credential: None, "" or one of NTokens tokens
TokenInputs ==
    {PyNone, PyStr(<<>>)} \cup {PyStr(<<"t", "k", data[i]>>) : i \in 1..NTokens}

InitCtor ==
    /\ tool = NoTool
    /\ pc = "idle"
    /\ call = NoCall
    /\ ret = NoRet
    /\ log = <<>>
    /\ prev = NoPrev

\* BilibiliEnhancedTool(sessdata, bili_jct, buvid3)
CallInit ==
    /\ pc = "idle"
    /\ tool = NoTool
    /\ \E sessdata \in TokenInputs, bili_jct \in TokenInputs, buvid3 \in TokenInputs :
        LET made == InitTool(sessdata, bili_jct, buvid3)
        IN  /\ call' = [op |-> "__init__", args |-> <<sessdata, bili_jct, buvid3>>]
            /\ ret' = made.ret
            /\ tool' = made.tool
    /\ pc' = "done"
    /\ UNCHANGED <<log, prev>>

\* the caller takes the result of the call
CtorReturn ==
    /\ pc = "done"
    /\ pc' = "idle"
    /\ call' = NoCall
    /\ ret' = NoRet
    /\ UNCHANGED <<tool, log, prev>>

\* tool.get_credentials_status() on an instance that exists
CallGetCredentialsStatus ==
    /\ pc = "idle"
    /\ tool # NoTool
    /\ call' = [op |-> "get_credentials_status", args |-> <<>>]
    /\ ret' = Return(GetCredentialsStatus(tool))
    /\ pc' = "done"
    /\ UNCHANGED <<tool, log, prev>>

NextCtor == CallInit \/ CtorReturn \/ CallGetCredentialsStatus

SpecCtor == InitCtor /\ [][NextCtor]_vars

-----------------------------------------------------------------------------
(* Properties of the constructor, under SpecCtor *)

CredentialNames == <<"sessdata", "bili_jct", "buvid3">>

\* the names of the credentials that a call of __init__ was given empty or absent
MissingOf(args) ==
    {CredentialNames[i] : i \in {j \in 1..3 : args[j] = PyNone \/ args[j] = PyStr(<<>>)}}

-----------------------------------------------------------------------------
(* The request signer: getMixinKey and encWbi *)

\* the printable ASCII characters in code-point order, from " " (32) to "~" (126);
\* the double quote (34), the backslash (92) and the grave accent (96) are written QUOT, BSOL and GRAVE
AsciiChars ==
    << " ", "!", "QUOT", "#", "$", "%", "&", "'", "(", ")", "*", "+", ",", "-", ".", "/",
       "0", "1", "2", "3", "4", "5", "6", "7", "8", "9", ":", ";", "<", "=", ">", "?",
       "@", "A", "B", "C", "D", "E", "F", "G", "H", "I", "J", "K", "L", "M", "N", "O",
       "P", "Q", "R", "S", "T", "U", "V", "W", "X", "Y", "Z", "[", "BSOL", "]", "^", "_",
       "GRAVE", "a", "b", "c", "d", "e", "f", "g", "h", "i", "j", "k", "l", "m", "n", "o",
       "p", "q", "r", "s", "t", "u", "v", "w", "x", "y", "z", "{", "|", "}", "~" >>

FirstCodePoint == 32

\* ord(c) of a printable ASCII character
Ord(c) == (CHOOSE i \in 1..Len(AsciiChars) : AsciiChars[i] = c) + FirstCodePoint - 1

\* a < b for two Python strs: by code point, a proper prefix first
RECURSIVE StrLess(_, _)
StrLess(a, b) ==
    IF b = <<>> THEN FALSE
    ELSE IF a = <<>> THEN TRUE
    ELSE IF a[1] # b[1] THEN Ord(a[1]) < Ord(b[1])
    ELSE StrLess(Tail(a), Tail(b))

DigitChars == <<"0", "1", "2", "3", "4", "5", "6", "7", "8", "9">>
HexChars == <<"0", "1", "2", "3", "4", "5", "6", "7", "8", "9", "A", "B", "C", "D", "E", "F">>

\* str(v) for an int or a str
Str(v) ==
    IF v.t = "int" THEN LET ds == ToDecimal(v.v) IN [i \in 1..Len(ds) |-> DigitChars[ds[i] + 1]]
    ELSE v.v

mixinKeyEncTab ==
    << 46, 47, 18, 2, 53, 8, 23, 32, 15, 50, 10, 31, 58, 3, 45, 35, 27, 43, 5, 49, 33, 9, 42,
       19, 29, 28, 14, 39, 12, 38, 41, 13, 37, 48, 7, 16, 24, 55, 40, 61, 26, 17, 0, 1, 60,
       51, 30, 4, 22, 25, 54, 21, 56, 59, 6, 63, 57, 62, 11, 36, 20, 34, 44, 52 >>

MixinKeyLen == 32

\* getMixinKey: orig[i] for every i of the table, cut to 32 characters; an index
\* beyond orig is an IndexError
GetMixinKey(orig) ==
    IF \E i \in 1..Len(mixinKeyEncTab) : mixinKeyEncTab[i] >= Len(orig)
    THEN Raise("IndexError")
    ELSE Return(SubSeq([i \in 1..Len(mixinKeyEncTab) |-> orig[mixinKeyEncTab[i] + 1]],
                       1, MixinKeyLen))

\* A dict is the sequence of its <<key, value>> items in insertion order.
DictKeys(d) == [i \in 1..Len(d) |-> d[i][1]]
HasKey(d, k) == \E i \in 1..Len(d) : d[i][1] = k
DictGet(d, k) == d[CHOOSE i \in 1..Len(d) : d[i][1] = k][2]

\* d[k] = v: an existing key keeps its place, a new one goes last
DictSet(d, k, v) ==
    IF HasKey(d, k) THEN [i \in 1..Len(d) |-> IF d[i][1] = k THEN <<k, v>> ELSE d[i]]
    ELSE Append(d, <<k, v>>)

\* sorted(params.items()): the keys are distinct, so the items order by key
RECURSIVE InsertItem(_, _)
InsertItem(sortedItems, item) ==
    IF sortedItems = <<>> THEN <<item>>
    ELSE IF StrLess(item[1], sortedItems[1][1]) THEN <<item>> \o sortedItems
    ELSE <<sortedItems[1]>> \o InsertItem(Tail(sortedItems), item)

RECURSIVE SortedItems(_)
SortedItems(items) ==
    IF items = <<>> THEN <<>>
    ELSE InsertItem(SortedItems(SubSeq(items, 1, Len(items) - 1)), items[Len(items)])

\* the characters encWbi filters out of every value
StripChars == {"!", "'", "(", ")", "*"}

NotStripped(c) == c \notin StripChars

\* "".join(filter(lambda chr: chr not in "!'()*", str(v)))
FilterValue(v) == SelectSeq(Str(v), NotStripped)

\* urllib.parse.quote_plus on printable ASCII: letters, digits and _.-~ stay,
\* a space becomes +, any other character %XX
SafeChars ==
    {AsciiChars[i] : i \in {j \in 1..Len(AsciiChars) :
        \/ (j + FirstCodePoint - 1) \in 48..57
        \/ (j + FirstCodePoint - 1) \in 65..90
        \/ (j + FirstCodePoint - 1) \in 97..122}} \cup {"_", ".", "-", "~"}

QuoteChar(c) ==
    IF c \in SafeChars THEN <<c>>
    ELSE IF c = " " THEN <<"+">>
    ELSE <<"%", HexChars[(Ord(c) \div 16) + 1], HexChars[(Ord(c) % 16) + 1]>>

RECURSIVE QuotePlus(_)
QuotePlus(str) == IF str = <<>> THEN <<>> ELSE QuoteChar(str[1]) \o QuotePlus(Tail(str))

\* urllib.parse.urlencode of a dict of strs
RECURSIVE UrlEncode(_)
UrlEncode(d) ==
    IF d = <<>> THEN <<>>
    ELSE QuotePlus(d[1][1]) \o <<"=">> \o QuotePlus(d[1][2])
            \o (IF Len(d) = 1 THEN <<>> ELSE <<"&">> \o UrlEncode(Tail(d)))

\* md5(text).hexdigest(), as a digest that differs whenever the text differs
Md5Hex(text) == <<"md5:">> \o text

WTS == <<"w", "t", "s">>
W_RID == <<"w", "_", "r", "i", "d">>

\* encWbi without the sort
EncWbiUnsorted(params, img_key, sub_key, now) ==
    LET mixin_key == GetMixinKey(img_key \o sub_key)
        withWts == DictSet(params, WTS, PyInt(now))
        filtered == [i \in 1..Len(withWts) |-> <<withWts[i][1], FilterValue(withWts[i][2])>>]
        query == UrlEncode(filtered)
    IN  IF mixin_key.kind = "raise" THEN [ret |-> mixin_key, params |-> params]
        ELSE [ret |-> Return(DictSet(filtered, W_RID, Md5Hex(query \o mixin_key.val))),
              params |-> withWts]

\* encWbi(params, img_key, sub_key) at the time now = round(time.time()):
\* [ret |-> how it ends, params |-> the caller's dict afterwards]
EncWbi(params, img_key, sub_key, now) ==
    LET mixin_key == GetMixinKey(img_key \o sub_key)
        withWts == DictSet(params, WTS, PyInt(now))
        sortedParams == SortedItems(withWts)
        filtered ==
            [i \in 1..Len(sortedParams) |-> <<sortedParams[i][1], FilterValue(sortedParams[i][2])>>]
        query == UrlEncode(filtered)
    IN  IF mixin_key.kind = "raise" THEN [ret |-> mixin_key, params |-> params]
        ELSE [ret |-> Return(DictSet(filtered, W_RID, Md5Hex(query \o mixin_key.val))),
              params |-> withWts]


-----------------------------------------------------------------------------
(* Inputs of the signer *)

ParamKeyInputs == {<<"a">>, <<"a", "b">>, <<"b">>, <<"Z">>, WTS, W_RID}

ParamValueInputs ==
    {PyStr(<<"x">>), PyStr(<<"y", "!", "z">>),
     PyStr(<<"(", "a", " ", "b", ")", "*", "'", "&">>), PyInt(<<1, 1, 1>>)}

\* dicts of at most MaxParams items, in every insertion order
ParamInputs ==
    UNION {{d \in [1..n -> ParamKeyInputs \X ParamValueInputs] :
                \A i, j \in 1..n : i # j => d[i][1] # d[j][1]} : n \in 0..MaxParams}

\* two key fragments as the key-distribution endpoint hands them out (32
\* characters each), and a pair that is too short to mix
ImgKey ==
    << "a", "b", "c", "d", "e", "f", "g", "h", "i", "j", "k", "l", "m", "n", "o", "p",
       "q", "r", "s", "t", "u", "v", "w", "x", "y", "z", "0", "1", "2", "3", "4", "5" >>
SubKey ==
    << "A", "B", "C", "D", "E", "F", "G", "H", "I", "J", "K", "L", "M", "N", "O", "P",
       "Q", "R", "S", "T", "U", "V", "W", "X", "Y", "Z", "6", "7", "8", "9", "_", "-" >>

KeyPairInputs == {<<ImgKey, SubKey>>, <<ImgKey, SubSeq(SubKey, 1, 8)>>}

\* round(time.time())
TimeInputs == {FromDecimal(<<1, 7, 0, 0, 0, 0, 0, 0, 0, 0>>), FromDecimal(<<9>>)}

InitSign ==
    /\ tool = NoTool
    /\ pc = "idle"
    /\ call = NoCall
    /\ ret = NoRet
    /\ log = <<>>
    /\ prev = NoPrev

\* encWbi(params, img_key, sub_key) at some time; the call record keeps the
\* clock reading and the caller's dict as the call leaves it
CallEncWbi ==
    /\ pc = "idle"
    /\ \E params \in ParamInputs, keys \in KeyPairInputs, now \in TimeInputs :
        LET out == EncWbi(params, keys[1], keys[2], now)
        IN  /\ call' = [op |-> "encWbi", args |-> <<params, keys[1], keys[2]>>,
                        now |-> now, params_after |-> out.params]
            /\ ret' = out.ret
    /\ pc' = "done"
    /\ UNCHANGED <<tool, log, prev>>

\* the caller takes the signed parameters
SignReturn ==
    /\ pc = "done"
    /\ pc' = "idle"
    /\ call' = NoCall
    /\ ret' = NoRet
    /\ UNCHANGED <<tool, log, prev>>

NextSign == CallEncWbi \/ SignReturn

SpecSign == InitSign /\ [][NextSign]_vars

-----------------------------------------------------------------------------
(* Properties of the signer, under SpecSign *)

\* the reorderings of a sequence
Reorderings(d) ==
    {[i \in 1..Len(d) |-> d[f[i]]] :
        f \in {g \in [1..Len(d) -> 1..Len(d)] : \A i, j \in 1..Len(d) : i # j => g[i] # g[j]}}

\* the output of encWbi on the input dict params at the time now: the input keys
\* plus wts in lexicographic order followed by w_rid, every input value with the
\* characters ! ' ( ) * removed and otherwise unchanged, and the same output
\* for every key order of the input
SignedAsClaimed(params, img_key, sub_key, now, out) ==
    LET inKeys == Range(DictKeys(params)) \cup {WTS}
        n == Cardinality(inKeys)
    IN  /\ Len(out) = n + 1
        /\ out[n + 1][1] = W_RID
        /\ {out[i][1] : i \in 1..n} = inKeys
        /\ \A i, j \in 1..n : i < j => StrLess(out[i][1], out[j][1])
        /\ \A i \in 1..Len(params) :
            /\ HasKey(out, params[i][1])
            /\ \A c \in Range(DictGet(out, params[i][1])) : c \notin StripChars
            /\ DictGet(out, params[i][1]) = SelectSeq(Str(params[i][2]), NotStripped)
        /\ \A q \in Reorderings(params) : EncWbi(q, img_key, sub_key, now).ret = Return(out)

\* C10 as stated: for any input parameter set in any key order, encWbi returns
\* the input keys plus wts in lexicographic order followed by w_rid, the values
\* stripped of ! ' ( ) * and otherwise unchanged, the same for every key order
C10_CanonicalAsStated ==
    (pc = "done" /\ call.op = "encWbi" /\ ret.kind = "return") =>
        SignedAsClaimed(call.args[1], call.args[2], call.args[3], call.now, ret.val)

\* C10 as amended: the same, for an input parameter set that has neither the
\* key wts nor the key w_rid
C10_Canonical ==
    (/\ pc = "done"
     /\ call.op = "encWbi"
     /\ ret.kind = "return"
     /\ ~HasKey(call.args[1], WTS)
     /\ ~HasKey(call.args[1], W_RID))
        => SignedAsClaimed(call.args[1], call.args[2], call.args[3], call.now, ret.val)

\* the parameters {b: "x", a: "y!z"}, given in this order, have come back as
\* a, b, wts, w_rid with a's value "yz"
C10_Witness ==
    /\ pc = "done"
    /\ call.op = "encWbi"
    /\ call.args[1] = << <<(<<"b">>), PyStr(<<"x">>)>>, <<(<<"a">>), PyStr(<<"y", "!", "z">>)>> >>
    /\ ret.kind = "return"
    /\ DictKeys(ret.val) = << <<"a">>, <<"b">>, WTS, W_RID >>
    /\ ret.val[1][2] = <<"y", "z">>


-----------------------------------------------------------------------------
(* The remote platform as the facade sees it: every HTTP GET ends in a
   transport failure or in a decoded JSON body *)

ApiUrl(address) == [t |-> "api", v |-> address]

NavUrl == ApiUrl("https://api.bilibili.com/x/web-interface/nav")
ViewUrl == ApiUrl("https://api.bilibili.com/x/web-interface/view")
PageListUrl == ApiUrl("https://api.bilibili.com/x/player/pagelist")
PlayerWbiUrl == ApiUrl("https://api.bilibili.com/x/player/wbi/v2")
PlayerUrl == ApiUrl("https://api.bilibili.com/x/player/v2")

\* what raise_for_status and the transport raise (response.json() raising
\* JSONDecodeError is handled the same way)
TransportErrors == {"HTTPStatusError", "RequestError"}

Failed(exc) == [kind |-> "error", exc |-> exc]
Json(body) == [kind |-> "json", body |-> body]

Zero == <<>>
One == <<1>>

\* a body with a non-zero code and a message
ApiErrorBody ==
    PyDict([code |-> PyInt(FromDecimal(<<6, 2, 0, 0, 2>>)),
            message |-> PyStr(<<"e", "r", "r">>)])

\* a body that is valid JSON but no object
NotDictBody == PyList(<<>>)

OkBody(payload) == PyDict([code |-> PyInt(Zero), message |-> PyStr(<<"0">>), data |-> payload])

\* the page descriptors of a video of n parts, with the cids 101, 102, ...
PageOf(k) == PyDict([cid |-> PyInt(FromDecimal(<<1, 0, k>>)), page |-> PyInt(FromDecimal(<<k>>))])
PagesOf(n) == PyList([k \in 1..n |-> PageOf(k)])

PageListResponses ==
    {Failed(e) : e \in TransportErrors}
        \cup {Json(ApiErrorBody), Json(NotDictBody)}
        \cup {Json(OkBody(PagesOf(n))) : n \in 0..MaxPages}

\* language tags of subtitle tracks
LanInputs == {<<"a", "i", "-", "z", "h">>, <<"E", "N">>}

\* the k-th track of a list: its content is at "//s<k>"
TrackUrl(k) == PyStr(<<"/", "/", "s", DigitChars[k + 1]>>)
TrackOf(k, lan) ==
    PyDict([lan |-> PyStr(lan), lan_doc |-> PyStr(<<"d", "o", "c">>), subtitle_url |-> TrackUrl(k)])

TrackLists ==
    UNION {{PyList([k \in 1..n |-> TrackOf(k, lans[k])]) : lans \in [1..n -> LanInputs]} :
                n \in 0..MaxTracks}
        \cup {PyList(<<PyDict([lan_doc |-> PyStr(<<"d", "o", "c">>), subtitle_url |-> TrackUrl(1)])>>),
              PyList(<<PyDict([lan |-> PyStr(<<"E", "N">>), lan_doc |-> PyStr(<<"d", "o", "c">>),
                               subtitle_url |-> PyStr(<<>>)])>>)}

PlayerData(tracks) == PyDict([subtitle |-> PyDict([subtitles |-> tracks])])

PlayerResponses ==
    {Failed(e) : e \in TransportErrors}
        \cup {Json(ApiErrorBody), Json(NotDictBody), Json(OkBody(PyDict(<<>>)))}
        \cup {Json(OkBody(PlayerData(tracks))) : tracks \in TrackLists}

\* the key-distribution lookup of getWbiKeys: the two fragments, or a failure
\* (network error, non-success status, malformed body)
NavResponses == {[kind |-> "keys", img_key |-> ImgKey, sub_key |-> SubKey]}
                    \cup {Failed(e) : e \in {"RequestError"}}

\* timed text fragments of a subtitle file
Fragment(content) == PyDict([from |-> PyInt(Zero), to |-> PyInt(One), content |-> PyStr(content)])

FragmentLists ==
    {PyList(<<>>),
     PyList(<<Fragment(<<"H", "i", " ">>), Fragment(<<>>), Fragment(<<"y", "o", "u">>)>>),
     PyList(<<Fragment(<<" ", " ">>)>>),
     PyList(<<Fragment(<<" ", "b">>), Fragment(<<"a">>), Fragment(<<"a">>)>>),
     PyList(<<Fragment(<<"TAB", "a", " ", "b", "LF">>), Fragment(<<"LF">>), Fragment(<<"c", "LF", "d">>)>>),
     PyList(<<PyDict([from |-> PyInt(Zero), to |-> PyInt(One)]), Fragment(<<"x">>)>>)}

SubtitleResponses ==
    {Failed(e) : e \in TransportErrors}
        \cup {Json(NotDictBody), Json(PyDict(<<>>))}
        \cup {Json(PyDict([body |-> frags])) : frags \in FragmentLists}

\* the owner, the counters and the other fields of a video
VideoData(bvid, pages) ==
    PyDict([aid |-> PyInt(FromDecimal(<<1, 7, 0, 0, 0, 1>>)), bvid |-> PyStr(bvid),
            title |-> PyStr(<<"t">>), desc |-> PyStr(<<"d">>),
            duration |-> PyInt(FromDecimal(<<6, 0>>)), pubdate |-> PyInt(FromDecimal(<<9>>)),
            owner |-> PyDict([name |-> PyStr(<<"u", "p">>)]),
            stat |-> PyDict([view |-> PyInt(One)]),
            pages |-> pages])

ViewResponses ==
    {Failed(e) : e \in TransportErrors}
        \cup {Json(ApiErrorBody), Json(NotDictBody), Json(OkBody(PyDict(<<>>)))}
        \cup {Json(OkBody(VideoData(TestVideoId, PagesOf(n)))) : n \in 1..MaxPages}

\* the remote platform during the facade's calls; now is round(time.time())
World ==
    [nav |-> NavResponses, view |-> ViewResponses, pagelist |-> PageListResponses,
     player_wbi |-> PlayerResponses, player |-> PlayerResponses,
     subtitle |-> SubtitleResponses,
     now |-> FromDecimal(<<1, 7, 0, 0, 0, 0, 0, 0, 0, 0>>)]


-----------------------------------------------------------------------------
(* Helpers of the facade *)

\* the outcome of a call: how it ends, and the requests it issued
Out(r, l) == [ret |-> r, log |-> l]

\* a request as issued: the address, the query parameters as sent, the cookies
\* sent along, and what came back
Entry(url, params, cookies, resp) ==
    [url |-> url, params |-> params, cookies |-> cookies, resp |-> resp]

NoParams == [kind |-> "none"]
Unsigned(items) == [kind |-> "unsigned", v |-> items]
Signed(items) == [kind |-> "signed", v |-> items]
NoCookies == [t |-> "none"]
Cookies(self) == [t |-> "dict", v |-> self.cookies]

K_bvid == <<"b", "v", "i", "d">>
K_aid == <<"a", "i", "d">>
K_cid == <<"c", "i", "d">>

\* d.get(k, default) on a dict
Get(d, k, default) == IF k \in DOMAIN d.v THEN d.v[k] ELSE default

\* not v, for None, a str, a list or a dict
IsEmpty(v) == v.t = "None" \/ v.v = <<>>

\* s.isdigit() on ASCII
IsDigit(str) == str # <<>> /\ \A i \in 1..Len(str) : str[i] \in Range(DigitChars)

\* s.replace('av', '')
RECURSIVE RemoveAv(_)
RemoveAv(str) ==
    IF Len(str) < 2 THEN str
    ELSE IF str[1] = "a" /\ str[2] = "v" THEN RemoveAv(SubSeq(str, 3, Len(str)))
    ELSE <<str[1]>> \o RemoveAv(Tail(str))

\* int(s) on ASCII digits; anything else is a ValueError
ParseInt(str) ==
    IF IsDigit(str)
    THEN Return(FromDecimal([i \in 1..Len(str) |-> (CHOOSE d \in 0..9 : DigitChars[d + 1] = str[i])]))
    ELSE Raise("ValueError")

\* needle in hay, for two strs
StrContains(hay, needle) ==
    \E i \in 1..(Len(hay) - Len(needle) + 1) : SubSeq(hay, i, i + Len(needle) - 1) = needle

Whitespace == {" ", "LF", "TAB"}

\* s.strip(); "LF" and "TAB" stand for the newline and the tab character
RECURSIVE LStrip(_)
LStrip(str) == IF str # <<>> /\ str[1] \in Whitespace THEN LStrip(Tail(str)) ELSE str
RECURSIVE RStrip(_)
RStrip(str) ==
    IF str # <<>> /\ str[Len(str)] \in Whitespace THEN RStrip(SubSeq(str, 1, Len(str) - 1)) ELSE str
Strip(str) == RStrip(LStrip(str))

-----------------------------------------------------------------------------
(* _make_request and the signing it does *)

\* getWbiKeys: one GET of the key-distribution endpoint, without cookies
GetWbiKeys(W) ==
    {Out(IF r.kind = "keys" THEN Return(<<r.img_key, r.sub_key>>) ELSE Raise(r.exc),
         <<Entry(NavUrl, NoParams, NoCookies, r)>>) : r \in W.nav}

\* get_signed_params(params)
GetSignedParams(W, params) ==
    {IF k.ret.kind = "raise" THEN k
     ELSE Out(EncWbi(params, k.ret.val[1], k.ret.val[2], W.now).ret, k.log) : k \in GetWbiKeys(W)}

\* what the remote of world W may answer at an address; an address that is no
\* API endpoint is the address of a subtitle file
Responses(W, url) ==
    IF url = ViewUrl THEN W.view
    ELSE IF url = PageListUrl THEN W.pagelist
    ELSE IF url = PlayerWbiUrl THEN W.player_wbi
    ELSE IF url = PlayerUrl THEN W.player
    ELSE W.subtitle

\* _make_request(url, params, use_wbi): the decoded body, or Exception for
\* every failure of the signing, the transport or the decoding
MakeRequest(self, W, url, params, use_wbi) ==
    LET prepared ==
            IF use_wbi /\ params.kind # "none" /\ params.v # <<>>
            THEN {IF g.ret.kind = "raise" THEN g ELSE Out(Return(Signed(g.ret.val)), g.log) :
                    g \in GetSignedParams(W, params.v)}
            ELSE {Out(Return(params), <<>>)}
    IN  UNION {IF g.ret.kind = "raise" THEN {Out(Raise("Exception"), g.log)}
               ELSE {Out(IF r.kind = "json" THEN Return(r.body) ELSE Raise("Exception"),
                         Append(g.log, Entry(url, g.ret.val, Cookies(self), r))) :
                        r \in Responses(W, url)} :
                    g \in prepared}

-----------------------------------------------------------------------------
(* The facade operations: each is the set of outcomes the call may have *)

\* the identifier forms as get_video_info and get_video_pages work them out:
\* Return([bvid, aid]), Raise(exception), or [kind |-> "invalid"]
IdForms(video_id) ==
    IF StartsWith(video_id, <<"B", "V">>)
    THEN LET aid == Bvid2aid(video_id)
         IN  IF aid.kind = "raise" THEN aid ELSE Return([bvid |-> video_id, aid |-> aid.val])
    ELSE IF StartsWith(video_id, <<"a", "v">>) \/ IsDigit(video_id)
    THEN LET aid == ParseInt(RemoveAv(video_id))
         IN  IF aid.kind = "raise" THEN aid
             ELSE LET bvid == Aid2bvid(aid.val)
                  IN  IF bvid.kind = "raise" THEN bvid
                      ELSE Return([bvid |-> bvid.val, aid |-> aid.val])
    ELSE [kind |-> "invalid"]

\* the identifier forms as get_player_info works them out: whatever is not an
\* av number is taken for a BV id.  An exception of aid2bvid leaves aid bound
\* (RaiseWith carries it), any other one leaves it unbound.
PlayerIdForms(video_id) ==
    IF StartsWith(video_id, <<"a", "v">>) \/ IsDigit(video_id)
    THEN LET aid == ParseInt(RemoveAv(video_id))
         IN  IF aid.kind = "raise" THEN aid
             ELSE LET bvid == Aid2bvid(aid.val)
                  IN  IF bvid.kind = "raise" THEN RaiseWith(bvid.exc, aid.val)
                      ELSE Return([bvid |-> bvid.val, aid |-> aid.val])
    ELSE LET aid == Bvid2aid(video_id)
         IN  IF aid.kind = "raise" THEN aid ELSE Return([bvid |-> video_id, aid |-> aid.val])

\* data.get('code') != 0 ... return data.get('data', default), inside a try
\* whose handler returns None: a raised request, a body that is no dict (.get
\* is an AttributeError) and a non-zero code all end in None
Unwrap(o, default) ==
    IF o.ret.kind = "raise" THEN Out(Return(PyNone), o.log)
    ELSE IF o.ret.val.t # "dict" THEN Out(Return(PyNone), o.log)
    ELSE IF Get(o.ret.val, "code", PyNone) # PyInt(Zero) THEN Out(Return(PyNone), o.log)
    ELSE Out(Return(Get(o.ret.val, "data", default)), o.log)

\* get_video_pages(video_id)
GetVideoPages(self, W, video_id) ==
    LET forms == IdForms(video_id)
    IN  IF forms.kind # "return" THEN {Out(Return(PyNone), <<>>)}
        ELSE {Unwrap(o, PyList(<<>>)) :
                o \in MakeRequest(self, W, PageListUrl,
                                  Unsigned(<< <<K_bvid, PyStr(forms.val.bvid)>> >>), FALSE)}

\* _get_player_info_fallback(aid, cid)
GetPlayerInfoFallback(self, W, aid, cid) ==
    {Unwrap(o, PyDict(<<>>)) :
        o \in MakeRequest(self, W, PlayerUrl,
                          Unsigned(<< <<K_aid, PyInt(aid)>>, <<K_cid, cid>> >>), FALSE)}

\* o, followed by each outcome of next
Then(o, next) == {Out(n.ret, o.log \o n.log) : n \in next}

\* get_player_info that gives up when the primary request raises
GetPlayerInfoNoRetry(self, W, video_id, cid) ==
    LET forms == PlayerIdForms(video_id)
    IN  IF forms.kind = "raise"
        THEN IF "info" \in DOMAIN forms
             THEN GetPlayerInfoFallback(self, W, forms.info, cid)
             ELSE LET again == Bvid2aid(video_id)
                  IN  IF again.kind = "raise" THEN {Out(Raise(again.exc), <<>>)}
                      ELSE GetPlayerInfoFallback(self, W, again.val, cid)
        ELSE UNION {
                IF o.ret.kind = "raise" THEN {Out(Return(PyNone), o.log)}
                ELSE IF o.ret.val.t # "dict"
                THEN Then(o, GetPlayerInfoFallback(self, W, forms.val.aid, cid))
                ELSE IF Get(o.ret.val, "code", PyNone) # PyInt(Zero)
                THEN Then(o, GetPlayerInfoFallback(self, W, forms.val.aid, cid))
                ELSE {Out(Return(Get(o.ret.val, "data", PyDict(<<>>))), o.log)} :
                    o \in MakeRequest(self, W, PlayerWbiUrl,
                                      Unsigned(<< <<K_bvid, PyStr(forms.val.bvid)>>, <<K_cid, cid>> >>),
                                      TRUE)}

\* get_player_info(video_id, cid).  When working out the forms raises with aid
\* not yet bound, the handler calls bvid2aid(video_id) again, outside any try:
\* for an av id that is bvid2aid on the av string.  When the request
\* raises, or the body is no dict (.get is an AttributeError), the handler
\* calls the fallback with aid; a non-zero code calls it from the try.
GetPlayerInfo(self, W, video_id, cid) ==
    LET forms == PlayerIdForms(video_id)
    IN  IF forms.kind = "raise"
        THEN IF "info" \in DOMAIN forms
             THEN GetPlayerInfoFallback(self, W, forms.info, cid)
             ELSE LET again == Bvid2aid(video_id)
                  IN  IF again.kind = "raise" THEN {Out(Raise(again.exc), <<>>)}
                      ELSE GetPlayerInfoFallback(self, W, again.val, cid)
        ELSE UNION {
                IF o.ret.kind = "raise"
                THEN Then(o, GetPlayerInfoFallback(self, W, forms.val.aid, cid))
                ELSE IF o.ret.val.t # "dict"
                THEN Then(o, GetPlayerInfoFallback(self, W, forms.val.aid, cid))
                ELSE IF Get(o.ret.val, "code", PyNone) # PyInt(Zero)
                THEN Then(o, GetPlayerInfoFallback(self, W, forms.val.aid, cid))
                ELSE {Out(Return(Get(o.ret.val, "data", PyDict(<<>>))), o.log)} :
                    o \in MakeRequest(self, W, PlayerWbiUrl,
                                      Unsigned(<< <<K_bvid, PyStr(forms.val.bvid)>>, <<K_cid, cid>> >>),
                                      TRUE)}

\* get_subtitle_info(video_id, cid): any exception of get_player_info is caught
GetSubtitleInfo(self, W, video_id, cid) ==
    {IF o.ret.kind = "raise" THEN Out(Return(PyNone), o.log)
     ELSE IF IsEmpty(o.ret.val) THEN Out(Return(PyNone), o.log)
     ELSE Out(Return(Get(Get(o.ret.val, "subtitle", PyDict(<<>>)), "subtitles", PyList(<<>>))),
              o.log) :
        o \in GetPlayerInfo(self, W, video_id, cid)}


\* download_subtitle(subtitle_url): params is None, so nothing is signed
DownloadSubtitle(self, W, subtitle_url) ==
    LET url == IF StartsWith(subtitle_url, <<"/", "/">>)
               THEN <<"h", "t", "t", "p", "s", ":">> \o subtitle_url
               ELSE subtitle_url
    IN  {IF o.ret.kind = "raise" THEN Out(Return(PyNone), o.log)
         ELSE IF o.ret.val.t # "dict" THEN Out(Return(PyNone), o.log)
         ELSE Out(Return(Get(o.ret.val, "body", PyList(<<>>))), o.log) :
            o \in MakeRequest(self, W, PyStr(url), NoParams, TRUE)}

\* pages[i] of Python for a list of n items: the 1-based position, 0 for an IndexError
ListIndex(n, i) ==
    IF 0 <= i /\ i < n THEN i + 1
    ELSE IF i < 0 /\ -n <= i THEN n + i + 1
    ELSE 0

\* for subtitle in subtitle_info: if lang in subtitle.get('lan', ''): ... break
RECURSIVE FindTarget(_, _, _)
FindTarget(subtitle_info, lang, i) ==
    IF i > Len(subtitle_info) THEN PyNone
    ELSE IF StrContains(Get(subtitle_info[i], "lan", PyStr(<<>>)).v, lang) THEN subtitle_info[i]
    ELSE FindTarget(subtitle_info, lang, i + 1)

\* the loop without the break: the last matching track wins
RECURSIVE FindLastTarget(_, _, _)
FindLastTarget(subtitle_info, lang, i) ==
    IF i > Len(subtitle_info) THEN PyNone
    ELSE LET later == FindLastTarget(subtitle_info, lang, i + 1)
         IN  IF later # PyNone THEN later
             ELSE IF StrContains(Get(subtitle_info[i], "lan", PyStr(<<>>)).v, lang)
             THEN subtitle_info[i]
             ELSE PyNone

\* the pick of the loop without the break
TargetSubtitleLast(subtitle_info, lang) ==
    LET found == FindLastTarget(subtitle_info, lang, 1)
    IN  IF IsEmpty(found) /\ subtitle_info # <<>> THEN subtitle_info[1] ELSE found

\* the track get_video_subtitle picks from a non-empty list
TargetSubtitle(subtitle_info, lang) ==
    LET found == FindTarget(subtitle_info, lang, 1)
    IN  IF IsEmpty(found) /\ subtitle_info # <<>> THEN subtitle_info[1] ELSE found

\* the loop without the test of content: an empty fragment leaves a blank line
RECURSIVE JoinContentsKeepBlank(_, _, _)
JoinContentsKeepBlank(subtitle_content, i, subtitle_text) ==
    IF i > Len(subtitle_content) \/ Len(subtitle_text) < 0 THEN subtitle_text
    ELSE LET content == Strip(Get(subtitle_content[i], "content", PyStr(<<>>)).v)
         IN  JoinContentsKeepBlank(subtitle_content, i + 1, subtitle_text \o content \o <<"LF">>)

\* for item in subtitle_content: content = item.get('content', '').strip() ...
RECURSIVE JoinContents(_, _, _)
JoinContents(subtitle_content, i, subtitle_text) ==
    IF i > Len(subtitle_content) \/ Len(subtitle_text) < 0 THEN subtitle_text
    ELSE LET content == Strip(Get(subtitle_content[i], "content", PyStr(<<>>)).v)
         IN  JoinContents(subtitle_content, i + 1,
                          IF content # <<>> THEN subtitle_text \o content \o <<"LF">>
                          ELSE subtitle_text)

\* the rest of get_video_subtitle once the tracks are there
SubtitleOfTracks(self, W, o, lang) ==
    IF IsEmpty(o.ret.val) THEN {Out(Return(PyNone), o.log)}
    ELSE LET target_subtitle == TargetSubtitle(o.ret.val.v, lang)
             subtitle_url == Get(target_subtitle, "subtitle_url", PyNone)
         IN  IF IsEmpty(target_subtitle) THEN {Out(Return(PyNone), o.log)}
             ELSE IF IsEmpty(subtitle_url) THEN {Out(Return(PyNone), o.log)}
             ELSE {IF IsEmpty(d.ret.val) THEN Out(Return(PyNone), o.log \o d.log)
                   ELSE Out(Return(PyStr(Strip(JoinContents(d.ret.val.v, 1, <<>>)))),
                            o.log \o d.log) :
                        d \in DownloadSubtitle(self, W, subtitle_url.v)}

\* get_video_subtitle(video_id, page, lang)
GetVideoSubtitle(self, W, video_id, page, lang) ==
    UNION {
        IF IsEmpty(p.ret.val) \/ page > Len(p.ret.val.v) THEN {Out(Return(PyNone), p.log)}
        ELSE LET at == ListIndex(Len(p.ret.val.v), page - 1)
             IN  IF at = 0 THEN {Out(Return(PyNone), p.log)}
                 ELSE UNION {SubtitleOfTracks(self, W, Out(t.ret, p.log \o t.log), lang) :
                                t \in GetSubtitleInfo(self, W, video_id,
                                                      Get(p.ret.val.v[at], "cid", PyNone))} :
            p \in GetVideoPages(self, W, video_id)}

\* get_video_info(video_id)
GetVideoInfo(self, W, video_id) ==
    LET forms == IdForms(video_id)
    IN  IF forms.kind # "return" THEN {Out(Return(PyNone), <<>>)}
        ELSE {LET u == Unwrap(o, PyDict(<<>>))
                  video_data == u.ret.val
              IN  IF o.ret.kind = "raise" \/ video_data = PyNone THEN u
                  ELSE Out(Return(PyDict(
                            [aid |-> Get(video_data, "aid", PyNone),
                             bvid |-> Get(video_data, "bvid", PyNone),
                             title |-> Get(video_data, "title", PyNone),
                             desc |-> Get(video_data, "desc", PyNone),
                             duration |-> Get(video_data, "duration", PyNone),
                             pubdate |-> Get(video_data, "pubdate", PyNone),
                             owner |-> Get(video_data, "owner", PyDict(<<>>)),
                             stat |-> Get(video_data, "stat", PyDict(<<>>)),
                             pages |-> Get(video_data, "pages", PyList(<<>>))])), o.log) :
                o \in MakeRequest(self, W, ViewUrl,
                                  Unsigned(<< <<K_bvid, PyStr(forms.val.bvid)>> >>), TRUE)}

-----------------------------------------------------------------------------
(* The facade as called by a user of the tool, against a remote platform that
   answers each request in any of the ways of World *)

VideoIdInputs ==
    {TestVideoId,
     <<"a", "v", "1", "7", "0", "0", "0", "1">>,
     <<"B", "V", "1">>,
     SubSeq(TestVideoId, 1, 10),
     <<"x", "y", "z">>,
     <<"a", "v", "x", "y", "z">>}

PageInputs == (0 - MaxPage)..MaxPage

LangInputs == {<<"z", "h">>, <<"e", "n">>}

CidInputs == {PyInt(FromDecimal(<<1, 0, 1>>))}

SubtitleUrlInputs == {<<"/", "/", "s", "1">>, <<"h", "t", "t", "p", "s", ":", "/", "/", "s", "2">>}

Init ==
    /\ tool = TheTool
    /\ pc = "idle"
    /\ call = NoCall
    /\ ret = NoRet
    /\ log = <<>>
    /\ prev = NoPrev

\* the call op(args) ends in outcome o
Ends(op, args, o) ==
    /\ call' = [op |-> op, args |-> args]
    /\ ret' = o.ret
    /\ log' = o.log
    /\ pc' = "done"
    /\ UNCHANGED <<tool, prev>>

CallGetVideoInfo ==
    /\ pc = "idle"
    /\ \E video_id \in VideoIdInputs :
            \E o \in GetVideoInfo(tool, World, video_id) : Ends("get_video_info", <<video_id>>, o)

CallGetVideoPages ==
    /\ pc = "idle"
    /\ \E video_id \in VideoIdInputs :
            \E o \in GetVideoPages(tool, World, video_id) : Ends("get_video_pages", <<video_id>>, o)

CallGetPlayerInfo ==
    /\ pc = "idle"
    /\ \E video_id \in VideoIdInputs, cid \in CidInputs :
            \E o \in GetPlayerInfo(tool, World, video_id, cid) :
                Ends("get_player_info", <<video_id, cid>>, o)

CallGetSubtitleInfo ==
    /\ pc = "idle"
    /\ \E video_id \in VideoIdInputs, cid \in CidInputs :
            \E o \in GetSubtitleInfo(tool, World, video_id, cid) :
                Ends("get_subtitle_info", <<video_id, cid>>, o)

CallDownloadSubtitle ==
    /\ pc = "idle"
    /\ \E subtitle_url \in SubtitleUrlInputs :
            \E o \in DownloadSubtitle(tool, World, subtitle_url) :
                Ends("download_subtitle", <<subtitle_url>>, o)

\* get_video_subtitle(video_id, page, lang) ends in one of its outcomes
SubtitleCall(video_id, page, lang) ==
    \E o \in GetVideoSubtitle(tool, World, video_id, page, lang) :
        Ends("get_video_subtitle", <<video_id, page, lang>>, o)

CallGetVideoSubtitle ==
    /\ pc = "idle"
    /\ \E video_id \in VideoIdInputs, page \in PageInputs, lang \in LangInputs :
            SubtitleCall(video_id, page, lang)

\* the caller takes the result
FacadeReturn ==
    /\ pc = "done"
    /\ pc' = "idle"
    /\ call' = NoCall
    /\ ret' = NoRet
    /\ log' = <<>>
    /\ UNCHANGED <<tool, prev>>

Next ==
    \/ CallGetVideoInfo
    \/ CallGetVideoPages
    \/ CallGetPlayerInfo
    \/ CallGetSubtitleInfo
    \/ CallDownloadSubtitle
    \/ CallGetVideoSubtitle
    \/ FacadeReturn

Spec == Init /\ [][Next]_vars

-----------------------------------------------------------------------------
(* Properties of the facade, read off the requests a call issued *)

\* a call of op has ended
Done(op) == pc = "done" /\ call.op = op

\* the positions of the log at which url was requested
Requests(url) == {i \in 1..Len(log) : log[i].url = url}

PlayerRequests == Requests(PlayerWbiUrl) \cup Requests(PlayerUrl)

\* the positions at which a subtitle file was requested
Downloads == {i \in 1..Len(log) : log[i].url.t = "str"}

Last(S) == CHOOSE i \in S : \A j \in S : j <= i

\* the answer is a JSON object with code 0
Succeeded(resp) ==
    /\ resp.kind = "json"
    /\ resp.body.t = "dict"
    /\ Get(resp.body, "code", PyNone) = PyInt(Zero)

PagesFetched == \E i \in Requests(PageListUrl) : Succeeded(log[i].resp)

\* the page list of the answer to the page-list request
PagesGot ==
    LET i == CHOOSE j \in Requests(PageListUrl) : Succeeded(log[j].resp)
    IN  Get(log[i].resp.body, "data", PyList(<<>>)).v

\* C3: get_video_subtitle with a page number outside 1..len(pages), zero and
\* negative numbers included, returns the failure value without resolving a
\* cid: after the page list it requests nothing, neither tracks nor content.
C3_InvalidPageRejected ==
    (Done("get_video_subtitle") /\ PagesFetched /\ call.args[2] \notin 1..Len(PagesGot)) =>
        /\ ret = Return(PyNone)
        /\ PlayerRequests = {}
        /\ Downloads = {}

\* the primary request of get_player_info is attempted once the identifier
\* forms are there
PrimaryAttempted == PlayerIdForms(call.args[1]).kind = "return"

PrimarySucceeded == \E i \in Requests(PlayerWbiUrl) : Succeeded(log[i].resp)

\* what the fallback makes of its answer
FallbackOutcome(resp) ==
    IF Succeeded(resp) THEN Return(Get(resp.body, "data", PyDict(<<>>))) ELSE Return(PyNone)

\* C4: in get_player_info the signed primary request is issued at most once.
\* When it fails (key fetch, transport, a body that is no object, a non-zero
\* code) the unsigned request keyed by aid and cid is issued exactly once, as the
\* last request, and its outcome is the result whatever the primary's error was;
\* when the primary succeeds with code 0 the fallback is never issued.
C4_FallbackOnce ==
    (Done("get_player_info") /\ PrimaryAttempted) =>
        /\ Cardinality(Requests(PlayerWbiUrl)) <= 1
        /\ PrimarySucceeded =>
            /\ Requests(PlayerUrl) = {}
            /\ ret = Return(Get(log[Len(log)].resp.body, "data", PyDict(<<>>)))
        /\ ~PrimarySucceeded =>
            /\ Requests(PlayerUrl) = {Len(log)}
            /\ log[Len(log)].params =
                    Unsigned(<< <<K_aid, PyInt(PlayerIdForms(call.args[1]).val.aid)>>,
                                <<K_cid, call.args[2]>> >>)
            /\ ret = FallbackOutcome(log[Len(log)].resp)

\* the primary request met a transport failure and the fallback delivered
C4_Witness ==
    /\ Done("get_player_info")
    /\ PrimaryAttempted
    /\ \E i \in Requests(PlayerWbiUrl) : log[i].resp.kind = "error"
    /\ Requests(PlayerUrl) = {Len(log)}
    /\ Succeeded(log[Len(log)].resp)
    /\ ret.kind = "return"
    /\ ~IsEmpty(ret.val)

FacadeOps ==
    {"get_video_info", "get_video_pages", "get_player_info", "get_subtitle_info",
     "download_subtitle", "get_video_subtitle"}

\* C8: no facade operation raises: whatever the identifier and whatever the
\* remote answers, each call ends by returning a value to the caller.
C8_NoUncaughtFault ==
    (pc = "done" /\ call.op \in FacadeOps) => ret.kind = "return"

\* the track list of the answer to the last player-info request
TracksGot ==
    IF PlayerRequests = {} THEN <<>>
    ELSE LET r == log[Last(PlayerRequests)].resp
         IN  IF Succeeded(r)
             THEN Get(Get(Get(r.body, "data", PyDict(<<>>)), "subtitle", PyDict(<<>>)),
                      "subtitles", PyList(<<>>)).v
             ELSE <<>>

\* the positions of the tracks whose language tag contains lang
Matching(tracks, lang) ==
    {i \in 1..Len(tracks) : StrContains(Get(tracks[i], "lan", PyStr(<<>>)).v, lang)}

Selected(tracks, lang) ==
    IF Matching(tracks, lang) = {} THEN 1
    ELSE CHOOSE i \in Matching(tracks, lang) : \A j \in Matching(tracks, lang) : i <= j

\* C9: for a non-empty track list get_video_subtitle selects the first track
\* in list order whose language tag contains lang as a case-sensitive
\* substring, the first track of the list when none does, and the one file it
\* downloads is the file of the selected track.
C9_FirstMatchingTrack ==
    (Done("get_video_subtitle") /\ TracksGot # <<>>) =>
        LET subtitle_url == Get(TracksGot[Selected(TracksGot, call.args[3])], "subtitle_url", PyNone)
        IN  IF IsEmpty(subtitle_url) THEN Downloads = {}
            ELSE /\ Downloads = {Len(log)}
                 /\ log[Len(log)].url = PyStr(<<"h", "t", "t", "p", "s", ":">> \o subtitle_url.v)

\* the first track does not match, the second does, and its text came back
C9_Witness ==
    /\ Done("get_video_subtitle")
    /\ Len(TracksGot) >= 2
    /\ Matching(TracksGot, call.args[3]) # {}
    /\ Selected(TracksGot, call.args[3]) = 2
    /\ Downloads = {Len(log)}
    /\ ret.kind = "return"
    /\ ret.val.t = "str"

-----------------------------------------------------------------------------
(* A caller that calls get_video_subtitle time and again and compares what it
   got with what the call before gave *)

\* how a call of get_video_subtitle went, told from the requests it issued
Class ==
    IF ~PagesFetched THEN "pages_failed"
    ELSE IF call.args[2] \notin 1..Len(PagesGot) THEN "invalid_page"
    ELSE IF PlayerRequests = {} THEN "lookup_failed"
    ELSE IF ~Succeeded(log[Last(PlayerRequests)].resp) THEN "lookup_failed"
    ELSE IF TracksGot = <<>> THEN "no_subtitles"
    ELSE IF Downloads = {} THEN "no_url"
    ELSE IF log[Last(Downloads)].resp.kind # "json" THEN "download_failed"
    ELSE IF log[Last(Downloads)].resp.body.t # "dict" THEN "download_failed"
    ELSE IF IsEmpty(ret.val) THEN "empty"
    ELSE "success"

HistoryVideoIds == {TestVideoId, <<"x", "y", "z">>}

CallGetVideoSubtitleOnPage ==
    /\ pc = "idle"
    /\ \E video_id \in HistoryVideoIds, page \in 1..MaxPage :
            SubtitleCall(video_id, page, <<"z", "h">>)

\* the caller takes the result and keeps it, with how the call went
RememberReturn ==
    /\ pc = "done"
    /\ prev' = [op |-> call.op, cls |-> Class, ret |-> ret]
    /\ pc' = "idle"
    /\ call' = NoCall
    /\ ret' = NoRet
    /\ log' = <<>>
    /\ UNCHANGED tool

NextHistory ==
    \/ CallGetVideoSubtitleOnPage
    \/ RememberReturn

SpecHistory == Init /\ [][NextHistory]_vars

\* the outcomes get_video_subtitle is to tell apart
NamedOutcomes ==
    {"pages_failed", "invalid_page", "lookup_failed", "no_subtitles", "download_failed", "success"}

\* C7: get_video_subtitle reports each of its failures (page list not
\* fetched, page number invalid, track lookup failed, no subtitles, download
\* failed) by a value of its own: two calls that went differently never hand
\* the caller the same value, and no failure is handed back as a success is.
C7_DistinctFailures ==
    (/\ Done("get_video_subtitle")
     /\ prev.op = "get_video_subtitle"
     /\ prev.cls # Class
     /\ {prev.cls, Class} \subseteq NamedOutcomes) => prev.ret # ret

-----------------------------------------------------------------------------
(* The flattening of the downloaded fragments *)

\* the subtitle file came back as a JSON object
Downloaded ==
    /\ Downloads # {}
    /\ log[Last(Downloads)].resp.kind = "json"
    /\ log[Last(Downloads)].resp.body.t = "dict"

\* the fragments of the downloaded file
FragmentsGot == Get(log[Last(Downloads)].resp.body, "body", PyList(<<>>)).v

\* the text of a fragment
TextOf(item) == Get(item, "content", PyStr(<<>>)).v

\* text without the whitespace at its two ends
Trimmed(text) ==
    LET solid == {i \in 1..Len(text) : text[i] \notin Whitespace}
    IN  IF solid = {} THEN <<>>
        ELSE SubSeq(text, CHOOSE i \in solid : \A j \in solid : i <= j,
                          CHOOSE i \in solid : \A j \in solid : j <= i)

IsSolid(item) == Trimmed(TextOf(item)) # <<>>

\* the lines, one after the other with a newline between two of them
RECURSIVE JoinLines(_)
JoinLines(lines) ==
    IF lines = <<>> THEN <<>>
    ELSE IF Len(lines) = 1 THEN lines[1]
    ELSE lines[1] \o <<"LF">> \o JoinLines(Tail(lines))

\* the trimmed texts of the fragments that are not empty after trimming
SolidLines(items) ==
    LET kept == SelectSeq(items, IsSolid)
    IN  [i \in 1..Len(kept) |-> Trimmed(TextOf(kept[i]))]

\* C11: the text get_video_subtitle returns for a downloaded fragment sequence
\* is the trimmed texts of the fragments that are non-empty after trimming,
\* in the order of the file, joined by newlines: an empty fragment leaves no
\* blank line, and no fragment is reordered, duplicated or dropped otherwise.
C11_Flattening ==
    (Done("get_video_subtitle") /\ Downloaded /\ FragmentsGot # <<>>) =>
        ret = Return(PyStr(JoinLines(SolidLines(FragmentsGot))))

\* three fragments, the one in the middle empty after trimming, came back as
\* two lines
C11_Witness ==
    /\ Done("get_video_subtitle")
    /\ Downloaded
    /\ Len(FragmentsGot) = 3
    /\ ~IsSolid(FragmentsGot[2])
    /\ IsSolid(FragmentsGot[1]) /\ IsSolid(FragmentsGot[3])
    /\ ret.kind = "return"
    /\ ret.val.t = "str"
    /\ Len(SolidLines(FragmentsGot)) = 2
    /\ ret.val.v = SolidLines(FragmentsGot)[1] \o <<"LF">> \o SolidLines(FragmentsGot)[2]

=============================================================================
